---- MODULE Spec2Model ----
(***************************************************************************)
(* Model of the social_investment oTree app                                *)
(* (src/social_investment/__init__.py): the page sequence of one session,  *)
(* the sequential decision gate, the payoff computation and the            *)
(* round-robin redistribution of groups.                                   *)
(*                                                                         *)
(* The state is the session's database rows (group matrix, Group and       *)
(* Player fields of every round) plus every participant's position in      *)
(* page_sequence.  One action is one page request of one participant; a    *)
(* wait page's after_all_players_arrive runs inside the request of the     *)
(* participant who arrives last.                                           *)
(*                                                                         *)
(* What the framework does with the pages is modelled as follows.          *)
(*  - A Page whose is_displayed is false is skipped; a Page that is shown  *)
(*    is left by submitting it.  is_displayed and vars_for_template are    *)
(*    evaluated on every rendering of a page.                              *)
(*  - A WaitPage holds a participant until every participant of the group  *)
(*    (of the subsession with wait_for_all_groups) has reached it; the     *)
(*    last arrival runs after_all_players_arrive once.  A WaitPage whose   *)
(*    is_displayed is false for everybody is passed without running it.    *)
(*  - Reading a field that is None raises, and a request that raises       *)
(*    leaves the rows as they were.                                        *)
(*  - Player.payoff is 0 until it is assigned.                             *)
(*                                                                         *)
(* The rows of all rounds are kept, so the reachable states multiply with  *)
(* every draw and choice; the exploration is cut by MaxB, the number of    *)
(* OPTION_B values the rows may hold (CountB in the guards of the writes). *)
(*                                                                         *)
(* Specifications:                                                         *)
(*  - Spec: the configured demo session (one group) through the pages;     *)
(*  - FairSpec: Spec with participants who never stop;                     *)
(*  - SpecTwoGroups: a session of two groups through the same pages;       *)
(*  - SpecRedistribution: the redistribution alone, on sessions of up to   *)
(*    MaxGroups groups;                                                    *)
(*  - SpecAdvisor: the advisor draw alone, under several thresholds;       *)
(*  - SpecExport: the demo session, followed up to a run of custom_export. *)
(***************************************************************************)
EXTENDS Integers, Sequences, FiniteSets, TLC

\* ---------------------------------------------------------------- constants
PLAYERS_PER_GROUP == 3
NUM_GROUPS == 3
NUM_ROUNDS == 3
OPTION_A == "A"
OPTION_B == "B"
CHOICES == <<OPTION_A, OPTION_B>>
CORRECT_CHOICE_REWARD == 10
INCORRECT_CHOICE_PENALTY == 0
TRANSACTION_COST == 0
ADVISOR_CORRECTION_THRESHOLD_PERCENT == 70
\* settings.py, SESSION_CONFIGS: the participants of the configured session.
num_demo_participants == 3

\* ------------------------------------------------------------------- bounds
\* Largest session, in groups, on which the redistribution is explored.
MaxGroups == 3
\* The explored states hold at most MaxB values OPTION_B in the rows of the
\* session (outcomes, recommendations and choices of all rounds together).
MaxB == 2
\* The same for a session of two groups, whose rows are twice as many.
MaxBTwoGroups == 0

\* The null of a database field that has not been written.
None == "None"
\* random.random() * 100 lies in [0, 100); the samples straddle the threshold.
RandomPercents == {0, 69, 70, 99}

Rounds == 1..NUM_ROUNDS
ChoiceSet == {CHOICES[i] : i \in 1..Len(CHOICES)}

VARIABLES
    threshold_percent,   \* C.ADVISOR_CORRECTION_THRESHOLD_PERCENT of the session
    numGroups,           \* len(subsession.get_group_matrix())
    group_matrix,        \* round -> list of groups, each a list of participants
    successful_option,   \* round -> group index -> Group.successful_option
    investment_choice,   \* round -> participant -> Player.investment_choice
    advisor_option,      \* round -> participant -> Player.advisor_option
    payoff,              \* round -> participant -> Player.payoff
    is_advisor_followed, \* round -> participant -> Player.is_advisor_followed
    round_number,        \* participant -> round of the page the participant is on
    page,                \* participant -> page of page_sequence the participant is on
    setup_completed,     \* round -> SetupRoundWaitPage completed
    results_wait,        \* round -> group index -> state of ResultsWaitPage
    redistribute_completed, \* round -> RedistributeGroupsWaitPage ran
    exported             \* what custom_export has yielded, once it has been run

vars == <<threshold_percent, numGroups, group_matrix, successful_option, investment_choice,
          advisor_option, payoff, is_advisor_followed, round_number, page,
          setup_completed, results_wait, redistribute_completed, exported>>

\* What a session is created with and keeps.
configuration == <<threshold_percent, numGroups>>

Participants == 1..(numGroups * PLAYERS_PER_GROUP)
Groups == 1..numGroups

\* ------------------------------------------------------------ page sequence
page_sequence == <<"SetupRoundWaitPage", "Introduction", "SequentialWaitPage",
                   "Decision", "ResultsWaitPage", "RoundResults",
                   "RedistributeGroupsWaitPage", "FinalResults">>

\* The position of a page in a round; past the last page of the last round
\* the framework shows its out-of-range page.
PageIndex(name) ==
    IF name = "OutOfRange" THEN Len(page_sequence) + 1
    ELSE CHOOSE i \in 1..Len(page_sequence) : page_sequence[i] = name

\* The participant has reached page `name` of round r (or a later page).
HasReached(p, r, name) ==
    \/ round_number[p] > r
    \/ round_number[p] = r /\ PageIndex(page[p]) >= PageIndex(name)

\* ------------------------------------------------------------------ groups
\* Session creation: consecutive participants, the same grouping in every round.
DefaultMatrix(n) ==
    [g \in 1..n |-> [k \in 1..PLAYERS_PER_GROUP |-> (g - 1) * PLAYERS_PER_GROUP + k]]

GroupOf(r, p) ==
    CHOOSE g \in 1..Len(group_matrix[r]) :
        \E k \in 1..Len(group_matrix[r][g]) : group_matrix[r][g][k] = p

get_players(r, g) == group_matrix[r][g]

id_in_group(r, p) ==
    CHOOSE k \in 1..Len(group_matrix[r][GroupOf(r, p)]) :
        group_matrix[r][GroupOf(r, p)][k] = p

members(r, g) == {get_players(r, g)[k] : k \in 1..Len(get_players(r, g))}

\* ------------------------------------------------------- utility functions
\* assign_successful_options: one random.choice(C.CHOICES) per group of the
\* subsession; `draw` is the outcome of the draws, one per group.
\* The loop stopping one group short.
assign_all_but_last(so, r, draw) ==
    [so EXCEPT ![r] = [g \in DOMAIN draw |->
                          IF g = Len(draw) THEN so[r][g] ELSE draw[g]]]

assign_successful_options(so, r, draw) ==
    [so EXCEPT ![r] = [g \in DOMAIN draw |-> draw[g]]]

OutcomeDraws(n) == [1..n -> ChoiceSet]

\* ------------------------------------------------------------ the turn gate
\* The loop of both is_displayed methods over group.get_players(): TRUE at the
\* first player with a smaller id_in_group whose investment_choice is None.
RECURSIVE PriorUndecided(_, _, _, _)
PriorUndecided(choice, players, k, my_id) ==
    IF k > Len(players) THEN FALSE
    ELSE IF k < my_id /\ choice[players[k]] = None THEN TRUE
    ELSE PriorUndecided(choice, players, k + 1, my_id)

SequentialWaitPage_is_displayed(choice, players, my_id) ==
    IF my_id = 1 THEN FALSE
    ELSE IF PriorUndecided(choice, players, 1, my_id) THEN TRUE
    ELSE FALSE

\* Decision.is_displayed with the return values of SequentialWaitPage's copy.
Decision_is_displayed_copied(choice, players, my_id) ==
    IF my_id = 1 THEN TRUE
    ELSE IF PriorUndecided(choice, players, 1, my_id) THEN TRUE
    ELSE FALSE

\* Decision.is_displayed without the gate.
Decision_is_displayed_always(choice, players, my_id) == TRUE

Decision_is_displayed(choice, players, my_id) ==
    IF my_id = 1 THEN TRUE
    ELSE IF PriorUndecided(choice, players, 1, my_id) THEN FALSE
    ELSE TRUE

\* Decision.is_displayed of participant p in round r, on the current rows.
canAct(r, p) ==
    Decision_is_displayed(investment_choice[r], get_players(r, GroupOf(r, p)),
                          id_in_group(r, p))

mustWait(r, p) ==
    SequentialWaitPage_is_displayed(investment_choice[r],
                                    get_players(r, GroupOf(r, p)), id_in_group(r, p))

\* --------------------------------------------------------------- the advisor
wrong_options(successful) ==
    SelectSeq(CHOICES, LAMBDA opt : opt # successful)

\* The comparison with the threshold made inclusive.
AdviceDraws_inclusive(random_value_percent, threshold, successful) ==
    IF random_value_percent <= threshold
    THEN {successful}
    ELSE {wrong_options(successful)[i] : i \in 1..Len(wrong_options(successful))}

\* Decision.vars_for_template: the options the advisor can come out with for
\* the random value random_value_percent under the threshold `threshold`
\* (random.choice draws any element of wrong_options).
AdviceDraws(random_value_percent, threshold, successful) ==
    IF random_value_percent < threshold
    THEN {successful}
    ELSE {wrong_options(successful)[i] : i \in 1..Len(wrong_options(successful))}

\* The same under the session's threshold.
AdvisorOptions(random_value_percent, successful) ==
    AdviceDraws(random_value_percent, threshold_percent, successful)

\* ---------------------------------------------------------------- payoffs
\* The two branches exchanged.
PlayerPayoff_exchanged(choice, successful) ==
    IF choice = successful
    THEN (0 - INCORRECT_CHOICE_PENALTY) - TRANSACTION_COST
    ELSE CORRECT_CHOICE_REWARD - TRANSACTION_COST

PlayerPayoff(choice, successful) ==
    IF choice = successful
    THEN CORRECT_CHOICE_REWARD - TRANSACTION_COST
    ELSE (0 - INCORRECT_CHOICE_PENALTY) - TRANSACTION_COST

\* A round in which the advice was not followed counted down.
AdvisorFollowed_countdown(counter, choice, advisor) ==
    IF choice = advisor THEN counter + 1 ELSE counter - 1

\* The comparison inverted.
AdvisorFollowed_inverted(counter, choice, advisor) ==
    IF choice # advisor THEN counter + 1 ELSE counter

AdvisorFollowed(counter, choice, advisor) ==
    IF choice = advisor THEN counter + 1 ELSE counter

\* Reading a null field of a Player raises: the loop of
\* ResultsWaitPage.after_all_players_arrive fails at the first member whose
\* investment_choice is None.
SettleRaises(choice, r, g) ==
    \E q \in members(r, g) : choice[q] = None

\* ---------------------------------------------------------- redistribution
\* A product where the sum stands.
target_group_index_product(g_index, p_index, num_groups) ==
    (g_index * p_index + 1) % num_groups

\* The shift by one forgotten.
target_group_index_no_shift(g_index, p_index, num_groups) ==
    (g_index + p_index) % num_groups

\* The position in the group left out: a group moves on as a whole.
target_group_index_group_only(g_index, p_index, num_groups) ==
    (g_index + 1) % num_groups

target_group_index(g_index, p_index, num_groups) ==
    (g_index + p_index + 1) % num_groups

\* The inner loop: enumerate(group_players), 0-based p_index.
RECURSIVE VisitGroup(_, _, _, _, _)
VisitGroup(g_index, group_players, p_index, new_matrix, num_groups) ==
    IF p_index >= Len(group_players) THEN new_matrix
    ELSE VisitGroup(g_index, group_players, p_index + 1,
            [new_matrix EXCEPT
                ![target_group_index(g_index, p_index, num_groups) + 1] =
                    Append(@, group_players[p_index + 1])],
            num_groups)

\* The outer loop: enumerate(current_matrix), 0-based g_index.
RECURSIVE VisitMatrix(_, _, _)
VisitMatrix(current_matrix, g_index, new_matrix) ==
    IF g_index >= Len(current_matrix) THEN new_matrix
    ELSE VisitMatrix(current_matrix, g_index + 1,
            VisitGroup(g_index, current_matrix[g_index + 1], 0, new_matrix,
                       Len(current_matrix)))

\* insert(0, player) where append stands: every new group comes out reversed.
Redistribute_prepended(current_matrix) ==
    LET appended == VisitMatrix(current_matrix, 0,
                                [t \in 1..Len(current_matrix) |-> <<>>])
    IN  [t \in DOMAIN appended |->
            [k \in 1..Len(appended[t]) |-> appended[t][Len(appended[t]) + 1 - k]]]

Redistribute(current_matrix) ==
    VisitMatrix(current_matrix, 0, [t \in 1..Len(current_matrix) |-> <<>>])

\* The last round included.
RedistributeGroupsWaitPage_is_displayed_every_round(r) == r <= NUM_ROUNDS

RedistributeGroupsWaitPage_is_displayed(r) == r < NUM_ROUNDS
Introduction_is_displayed(r) == r = 1
\* FinalResults without its is_displayed.
FinalResults_is_displayed_always(r) == TRUE

FinalResults_is_displayed(r) == r = NUM_ROUNDS

\* ----------------------------------------------------------- explored rows
\* The number of OPTION_B values in the three columns.
CountB(so, adv, ch) ==
    Cardinality({<<r, g>> \in Rounds \X Groups : so[r][g] = OPTION_B})
    + Cardinality({<<r, p>> \in Rounds \X Participants : adv[r][p] = OPTION_B})
    + Cardinality({<<r, p>> \in Rounds \X Participants : ch[r][p] = OPTION_B})

\* The OPTION_B values the rows of the explored session may hold.
Budget == IF numGroups = 2 THEN MaxBTwoGroups ELSE MaxB

\* ------------------------------------------------------------ aggregates
\* sum(... for p in self.in_all_rounds()): the column's values of participant
\* p in the rounds 1..r.
RECURSIVE SumRounds(_, _, _)
SumRounds(column, p, r) ==
    IF r <= 0 THEN 0 ELSE SumRounds(column, p, r - 1) + column[r][p]

total_followed_adviser(p, r) == SumRounds(is_advisor_followed, p, r)
total_payoff(p, r) == SumRounds(payoff, p, r)

\* ------------------------------------------------------------- wait pages
\* _tally_unvisited: every other participant of the set has reached the page.
AllArrived(S, p, r, name) ==
    \A q \in S \ {p} : HasReached(q, r, name)

\* ResultsWaitPage.after_all_players_arrive on the rows of group g, round r.
SettledPayoff(choice, r, g) ==
    [q \in DOMAIN payoff[r] |->
        IF q \in members(r, g)
        THEN PlayerPayoff(choice[q], successful_option[r][g])
        ELSE payoff[r][q]]

SettledFollowed(choice, r, g) ==
    [q \in DOMAIN is_advisor_followed[r] |->
        IF q \in members(r, g)
        THEN AdvisorFollowed(is_advisor_followed[r][q], choice[q], advisor_option[r][q])
        ELSE is_advisor_followed[r][q]]

\* Participant p arrives at SetupRoundWaitPage of round r; the last arrival of
\* the subsession runs after_all_players_arrive.
ArriveSetup(p, r) ==
    /\ round_number' = [round_number EXCEPT ![p] = r]
    /\ page' = [page EXCEPT ![p] = "SetupRoundWaitPage"]
    /\ IF AllArrived(Participants, p, r, "SetupRoundWaitPage")
       THEN /\ \E draw \in OutcomeDraws(Len(group_matrix[r])) :
                  /\ successful_option' = assign_successful_options(successful_option, r, draw)
                  /\ CountB(successful_option', advisor_option, investment_choice) <= Budget
            /\ setup_completed' = [setup_completed EXCEPT ![r] = TRUE]
       ELSE UNCHANGED <<successful_option, setup_completed>>

\* Participant p arrives at ResultsWaitPage of round r, `choice` being the
\* round's investment_choice column after p's request; the last arrival of the
\* group runs after_all_players_arrive.
ArriveResults(p, r, choice) ==
    LET g == GroupOf(r, p) IN
    /\ page' = [page EXCEPT ![p] = "ResultsWaitPage"]
    /\ IF AllArrived(members(r, g), p, r, "ResultsWaitPage")
       THEN IF SettleRaises(choice, r, g)
            THEN /\ results_wait' = [results_wait EXCEPT ![r][g] = "failed"]
                 /\ UNCHANGED <<payoff, is_advisor_followed>>
            ELSE /\ results_wait' = [results_wait EXCEPT ![r][g] = "completed"]
                 /\ payoff' = [payoff EXCEPT ![r] = SettledPayoff(choice, r, g)]
                 /\ is_advisor_followed' =
                        [is_advisor_followed EXCEPT ![r] = SettledFollowed(choice, r, g)]
       ELSE UNCHANGED <<results_wait, payoff, is_advisor_followed>>

\* assign_successful_options called on the round that ends instead of next_sub.
RedistributeGroups_current_round(r) ==
    /\ group_matrix' = [group_matrix EXCEPT ![r + 1] = Redistribute(group_matrix[r])]
    /\ \E draw \in OutcomeDraws(Len(group_matrix[r])) :
          /\ successful_option' =
                assign_successful_options(successful_option, r, draw)
          /\ CountB(successful_option', advisor_option, investment_choice) <= Budget
    /\ redistribute_completed' = [redistribute_completed EXCEPT ![r] = TRUE]

\* RedistributeGroupsWaitPage.after_all_players_arrive in round r: the new
\* matrix becomes the grouping of round r + 1, whose groups get their outcomes.
RedistributeGroups(r) ==
    /\ group_matrix' = [group_matrix EXCEPT ![r + 1] = Redistribute(group_matrix[r])]
    /\ \E draw \in OutcomeDraws(Len(group_matrix[r])) :
          /\ successful_option' =
                assign_successful_options(successful_option, r + 1, draw)
          /\ CountB(successful_option', advisor_option, investment_choice) <= Budget
    /\ redistribute_completed' = [redistribute_completed EXCEPT ![r] = TRUE]

\* Decision.vars_for_template of p in round r draws and stores the advice.
DrawAdvice(p, r) ==
    \E random_value_percent \in RandomPercents :
        \E advice \in AdvisorOptions(random_value_percent,
                                     successful_option[r][GroupOf(r, p)]) :
            advisor_option' = [advisor_option EXCEPT ![r][p] = advice]

\* Decision is rendered for p.
RenderDecision(p, r) ==
    /\ page' = [page EXCEPT ![p] = "Decision"]
    /\ DrawAdvice(p, r)
    /\ CountB(successful_option, advisor_option', investment_choice) <= Budget

\* The participant moves on from SequentialWaitPage (or past it): Decision is
\* shown if its is_displayed holds and skipped otherwise.
EnterDecision(p, r) ==
    IF canAct(r, p)
    THEN /\ RenderDecision(p, r)
         /\ UNCHANGED <<results_wait, payoff, is_advisor_followed>>
    ELSE /\ ArriveResults(p, r, investment_choice[r])
         /\ UNCHANGED advisor_option

EnterSequential(p, r) ==
    IF mustWait(r, p)
    THEN /\ page' = [page EXCEPT ![p] = "SequentialWaitPage"]
         /\ UNCHANGED <<advisor_option, results_wait, payoff, is_advisor_followed>>
    ELSE EnterDecision(p, r)

\* ------------------------------------------------------------------ actions
StartSession(p) ==
    /\ round_number[p] = 0
    /\ ArriveSetup(p, 1)
    /\ UNCHANGED <<configuration, exported, group_matrix, investment_choice, advisor_option,
                   payoff, is_advisor_followed, results_wait,
                   redistribute_completed>>

SetupRoundWaitPage_next(p) ==
    LET r == round_number[p] IN
    /\ r >= 1 /\ page[p] = "SetupRoundWaitPage"
    /\ setup_completed[r]
    /\ IF Introduction_is_displayed(r)
       THEN /\ page' = [page EXCEPT ![p] = "Introduction"]
            /\ UNCHANGED <<advisor_option, results_wait, payoff, is_advisor_followed>>
       ELSE EnterSequential(p, r)
    /\ UNCHANGED <<configuration, exported, group_matrix, successful_option, investment_choice,
                   round_number, setup_completed, redistribute_completed>>

Introduction_next(p) ==
    LET r == round_number[p] IN
    /\ r >= 1 /\ page[p] = "Introduction"
    /\ EnterSequential(p, r)
    /\ UNCHANGED <<configuration, exported, group_matrix, successful_option, investment_choice,
                   round_number, setup_completed, redistribute_completed>>

\* A request on SequentialWaitPage that leaves the page: a reload once
\* is_displayed has become false, or the submission of the page.
SequentialWaitPage_next(p) ==
    LET r == round_number[p] IN
    /\ r >= 1 /\ page[p] = "SequentialWaitPage"
    /\ EnterDecision(p, r)
    /\ UNCHANGED <<configuration, exported, group_matrix, successful_option, investment_choice,
                   round_number, setup_completed, redistribute_completed>>

\* Decision is rendered again (a reload, or a submission the form rejects).
Decision_render(p) ==
    LET r == round_number[p] IN
    /\ r >= 1 /\ page[p] = "Decision"
    /\ RenderDecision(p, r)
    /\ UNCHANGED <<configuration, exported, group_matrix, successful_option, investment_choice,
                   payoff, is_advisor_followed, round_number, setup_completed,
                   results_wait, redistribute_completed>>

Decision_submit(p) ==
    LET r == round_number[p] IN
    /\ r >= 1 /\ page[p] = "Decision"
    /\ \E c \in ChoiceSet :
         /\ investment_choice' = [investment_choice EXCEPT ![r][p] = c]
         /\ CountB(successful_option, advisor_option, investment_choice') <= Budget
         /\ ArriveResults(p, r, [investment_choice[r] EXCEPT ![p] = c])
    /\ UNCHANGED <<configuration, exported, group_matrix, successful_option, advisor_option,
                   round_number, setup_completed, redistribute_completed>>

ResultsWaitPage_next(p) ==
    LET r == round_number[p] IN
    /\ r >= 1 /\ page[p] = "ResultsWaitPage"
    /\ results_wait[r][GroupOf(r, p)] = "completed"
    /\ page' = [page EXCEPT ![p] = "RoundResults"]
    /\ UNCHANGED <<configuration, exported, group_matrix, successful_option, investment_choice,
                   advisor_option, payoff, is_advisor_followed, round_number,
                   setup_completed, results_wait, redistribute_completed>>

\* The participant moves on to FinalResults: the page if it is displayed, else
\* the first page of the next round (after the last round, the end of the
\* page sequence).
EnterFinalResults(p, r) ==
    IF FinalResults_is_displayed(r)
    THEN /\ page' = [page EXCEPT ![p] = "FinalResults"]
         /\ UNCHANGED <<round_number, successful_option, setup_completed>>
    ELSE IF r < NUM_ROUNDS
    THEN ArriveSetup(p, r + 1)
    ELSE /\ page' = [page EXCEPT ![p] = "OutOfRange"]
         /\ UNCHANGED <<round_number, successful_option, setup_completed>>

\* RedistributeGroupsWaitPage without wait_for_all_groups: the participants
\* of the own group only.
RedistributeGroupsWaitPage_waits_for_group(r, p) == members(r, GroupOf(r, p))

\* RedistributeGroupsWaitPage.wait_for_all_groups = True: the participants
\* whose arrival the page of p awaits in round r.
RedistributeGroupsWaitPage_waits_for(r, p) == Participants

\* RoundResults is submitted: RedistributeGroupsWaitPage if it is displayed
\* (its last arrival runs after_all_players_arrive), else FinalResults.
RoundResults_next(p) ==
    LET r == round_number[p] IN
    /\ r >= 1 /\ page[p] = "RoundResults"
    /\ IF RedistributeGroupsWaitPage_is_displayed(r)
       THEN /\ page' = [page EXCEPT ![p] = "RedistributeGroupsWaitPage"]
            /\ IF AllArrived(RedistributeGroupsWaitPage_waits_for(r, p), p, r,
                             "RedistributeGroupsWaitPage")
               THEN RedistributeGroups(r)
               ELSE UNCHANGED <<group_matrix, successful_option, redistribute_completed>>
            /\ UNCHANGED <<round_number, setup_completed>>
       ELSE /\ EnterFinalResults(p, r)
            /\ UNCHANGED <<group_matrix, redistribute_completed>>
    /\ UNCHANGED <<configuration, exported, investment_choice, advisor_option, payoff,
                   is_advisor_followed, results_wait>>

\* The completed RedistributeGroupsWaitPage lets p on: FinalResults is not
\* displayed before the last round, so p arrives at the next round's
\* SetupRoundWaitPage.
RedistributeGroupsWaitPage_next(p) ==
    LET r == round_number[p] IN
    /\ r >= 1 /\ page[p] = "RedistributeGroupsWaitPage"
    /\ redistribute_completed[r]
    /\ EnterFinalResults(p, r)
    /\ UNCHANGED <<configuration, exported, group_matrix, investment_choice, advisor_option,
                   payoff, is_advisor_followed, results_wait,
                   redistribute_completed>>

\* ------------------------------------------------------------ specification
InitRows(n, matrix) ==
    /\ numGroups = n
    /\ group_matrix = [r \in Rounds |-> matrix]
    /\ successful_option = [r \in Rounds |-> [g \in 1..n |-> None]]
    /\ investment_choice = [r \in Rounds |-> [p \in 1..(n * PLAYERS_PER_GROUP) |-> None]]
    /\ advisor_option = [r \in Rounds |-> [p \in 1..(n * PLAYERS_PER_GROUP) |-> None]]
    /\ payoff = [r \in Rounds |-> [p \in 1..(n * PLAYERS_PER_GROUP) |-> 0]]
    /\ is_advisor_followed = [r \in Rounds |-> [p \in 1..(n * PLAYERS_PER_GROUP) |-> 0]]
    /\ round_number = [p \in 1..(n * PLAYERS_PER_GROUP) |-> 0]
    /\ page = [p \in 1..(n * PLAYERS_PER_GROUP) |-> "Start"]
    /\ setup_completed = [r \in Rounds |-> FALSE]
    /\ results_wait = [r \in Rounds |-> [g \in 1..n |-> "waiting"]]
    /\ redistribute_completed = [r \in Rounds |-> FALSE]
    /\ exported = [state |-> "NotExported", rows |-> <<>>]

\* The configured session: num_demo_participants participants in groups of
\* PLAYERS_PER_GROUP, nobody has opened the first page yet.
Init ==
    /\ threshold_percent = ADVISOR_CORRECTION_THRESHOLD_PERCENT
    /\ InitRows(num_demo_participants \div PLAYERS_PER_GROUP,
                DefaultMatrix(num_demo_participants \div PLAYERS_PER_GROUP))

Next ==
    \/ \E p \in Participants : StartSession(p)
    \/ \E p \in Participants : SetupRoundWaitPage_next(p)
    \/ \E p \in Participants : Introduction_next(p)
    \/ \E p \in Participants : SequentialWaitPage_next(p)
    \/ \E p \in Participants : Decision_render(p)
    \/ \E p \in Participants : Decision_submit(p)
    \/ \E p \in Participants : ResultsWaitPage_next(p)
    \/ \E p \in Participants : RoundResults_next(p)
    \/ \E p \in Participants : RedistributeGroupsWaitPage_next(p)

Spec == Init /\ [][Next]_vars

\* The demo session with participants who keep going: a participant on a page
\* that can be left eventually leaves it (the wait pages reload by themselves,
\* the others are submitted), and a participant on Decision eventually submits
\* a choice.  A reload of Decision is never owed.
Fairness ==
    \A p \in 1..num_demo_participants :
        /\ WF_vars(StartSession(p))
        /\ WF_vars(SetupRoundWaitPage_next(p))
        /\ WF_vars(Introduction_next(p))
        /\ WF_vars(SequentialWaitPage_next(p))
        /\ WF_vars(Decision_submit(p))
        /\ WF_vars(ResultsWaitPage_next(p))
        /\ WF_vars(RoundResults_next(p))
        /\ WF_vars(RedistributeGroupsWaitPage_next(p))

FairSpec == Init /\ [][Next]_vars /\ Fairness

\* A session of two groups going through the same pages.
InitTwoGroups ==
    /\ threshold_percent = ADVISOR_CORRECTION_THRESHOLD_PERCENT
    /\ InitRows(2, DefaultMatrix(2))

SpecTwoGroups == InitTwoGroups /\ [][Next]_vars

\* ------------------------------------- the redistribution on its own
\* The grouping `matrix` with the participants a and b exchanged.
Exchange(matrix, a, b) ==
    [g \in DOMAIN matrix |->
        [k \in DOMAIN matrix[g] |->
            IF matrix[g][k] = a THEN b
            ELSE IF matrix[g][k] = b THEN a
            ELSE matrix[g][k]]]

\* Round-1 groupings of a session of n groups: the consecutive grouping and
\* the groupings that differ from it by two participants changing places.
InitialGroupings(n) ==
    {Exchange(DefaultMatrix(n), a, b) :
        a \in 1..(n * PLAYERS_PER_GROUP), b \in 1..(n * PLAYERS_PER_GROUP)}

InitRedistribution ==
    /\ threshold_percent = ADVISOR_CORRECTION_THRESHOLD_PERCENT
    /\ \E n \in 1..MaxGroups : \E matrix \in InitialGroupings(n) : InitRows(n, matrix)

\* after_all_players_arrive of RedistributeGroupsWaitPage, round after round.
RedistributeRound ==
    \E r \in Rounds :
        /\ RedistributeGroupsWaitPage_is_displayed(r)
        /\ ~redistribute_completed[r]
        /\ \A q \in 1..(r - 1) : redistribute_completed[q]
        /\ RedistributeGroups(r)
        /\ UNCHANGED <<configuration, exported, investment_choice, advisor_option, payoff,
                       is_advisor_followed, round_number, page, setup_completed,
                       results_wait>>

SpecRedistribution == InitRedistribution /\ [][RedistributeRound]_vars

\* ------------------------------------------------------------ the export
\* custom_export, `if pp.investment_choice`: the condition reads the field of
\* every Player row of the participant, and reading a None field raises.
num_correct_raises(p) ==
    \E r \in Rounds : investment_choice[r][p] = None

\* The rows counted by the generator expression of num_correct:
\* field_maybe_none('successful_option') may be None and then equals no choice.
num_correct(p) ==
    Cardinality({r \in Rounds :
                    /\ investment_choice[r][p] \in ChoiceSet
                    /\ successful_option[r][GroupOf(r, p)] = investment_choice[r][p]})

num_incorrect(p) == NUM_ROUNDS - num_correct(p)

\* The row yielded for the participant with index idx.
ParticipantRow(idx) ==
    [ID |-> idx,
     num_correct |-> num_correct(idx),
     num_incorrect |-> num_incorrect(idx),
     times_followed_adviser |-> SumRounds(is_advisor_followed, idx, NUM_ROUNDS),
     total_payoff |-> SumRounds(payoff, idx, NUM_ROUNDS)]

\* The loop over participants.items(): rows are yielded until the generator
\* is exhausted or raises.
RECURSIVE ParticipantRows(_, _)
ParticipantRows(idx, rows) ==
    IF idx > numGroups * PLAYERS_PER_GROUP
    THEN [state |-> "yielded", rows |-> rows]
    ELSE IF num_correct_raises(idx)
    THEN [state |-> "raised", rows |-> rows]
    ELSE ParticipantRows(idx + 1, Append(rows, ParticipantRow(idx)))

\* The session's data is exported once; the export writes no row of the
\* session, and the session is followed up to its export.
Running == exported.state = "NotExported"

custom_export ==
    /\ Running
    /\ exported' = ParticipantRows(1, <<>>)
    /\ UNCHANGED <<configuration, group_matrix, successful_option,
                   investment_choice, advisor_option, payoff, is_advisor_followed,
                   round_number, page, setup_completed, results_wait,
                   redistribute_completed>>

NextExport ==
    \/ \E p \in Participants : Running /\ StartSession(p)
    \/ \E p \in Participants : Running /\ SetupRoundWaitPage_next(p)
    \/ \E p \in Participants : Running /\ Introduction_next(p)
    \/ \E p \in Participants : Running /\ SequentialWaitPage_next(p)
    \/ \E p \in Participants : Running /\ Decision_render(p)
    \/ \E p \in Participants : Running /\ Decision_submit(p)
    \/ \E p \in Participants : Running /\ ResultsWaitPage_next(p)
    \/ \E p \in Participants : Running /\ RoundResults_next(p)
    \/ \E p \in Participants : Running /\ RedistributeGroupsWaitPage_next(p)
    \/ custom_export

SpecExport == Init /\ [][NextExport]_vars

\* ------------------------------------------------- the advisor on its own
\* Thresholds a session can be configured with: never truthful, the configured
\* one and its neighbours in RandomPercents, always truthful.
Thresholds == {0, 1, ADVISOR_CORRECTION_THRESHOLD_PERCENT, 99, 100}

InitAdvisor ==
    /\ threshold_percent \in Thresholds
    /\ InitRows(1, DefaultMatrix(1))

\* The outcome of the first round's groups is drawn.
AssignOutcomes ==
    /\ \E g \in Groups : successful_option[1][g] = None
    /\ \E draw \in OutcomeDraws(numGroups) :
          successful_option' = assign_successful_options(successful_option, 1, draw)
    /\ UNCHANGED <<configuration, exported, group_matrix, investment_choice, advisor_option,
                   payoff, is_advisor_followed, round_number, page,
                   setup_completed, results_wait, redistribute_completed>>

\* Decision.vars_for_template runs for p in the first round.
Decision_vars_for_template(p) ==
    /\ successful_option[1][GroupOf(1, p)] # None
    /\ DrawAdvice(p, 1)
    /\ UNCHANGED <<configuration, exported, group_matrix, successful_option,
                   investment_choice, payoff, is_advisor_followed, round_number,
                   page, setup_completed, results_wait, redistribute_completed>>

NextAdvisor ==
    \/ AssignOutcomes
    \/ \E p \in Participants : Decision_vars_for_template(p)

SpecAdvisor == InitAdvisor /\ [][NextAdvisor]_vars

\* -------------------------------------------------------------- properties
Member(r, g, k) == group_matrix[r][g][k]

\* C1: in every group of every round, Decision.is_displayed (canAct) of the
\* member with id_in_group j is false while a member with a smaller
\* id_in_group has no investment_choice, and it is true exactly when j is 1 or
\* every member with a smaller id_in_group has an investment_choice.
TurnOrdering ==
    \A r \in Rounds : \A g \in 1..Len(group_matrix[r]) :
        \A j \in 1..Len(group_matrix[r][g]) :
            /\ \A i \in 1..(j - 1) :
                  investment_choice[r][Member(r, g, i)] = None
                      => ~canAct(r, Member(r, g, j))
            /\ canAct(r, Member(r, g, j)) <=>
                  (j = 1 \/ \A i \in 1..(j - 1) :
                               investment_choice[r][Member(r, g, i)] # None)

\* The first member has decided, the second is on its Decision page and the
\* third may not act yet.
TurnOrderingWitness ==
    \E r \in Rounds : \E g \in 1..Len(group_matrix[r]) :
        /\ Len(group_matrix[r][g]) >= 3
        /\ investment_choice[r][Member(r, g, 1)] # None
        /\ investment_choice[r][Member(r, g, 2)] = None
        /\ round_number[Member(r, g, 2)] = r
        /\ page[Member(r, g, 2)] = "Decision"
        /\ canAct(r, Member(r, g, 2))
        /\ ~canAct(r, Member(r, g, 3))

\* C2: within one group and round the choices are submitted in ascending
\* id_in_group order: a step that gives member j its investment_choice starts
\* in a state where every member i < j already has one.
AscendingSubmission ==
    [][\A r \in Rounds : \A g \in 1..Len(group_matrix[r]) :
          \A j \in 1..Len(group_matrix[r][g]) : \A i \in 1..(j - 1) :
              (/\ investment_choice[r][Member(r, g, j)] = None
               /\ investment_choice'[r][Member(r, g, j)] # None)
                  => investment_choice[r][Member(r, g, i)] # None]_vars

\* In the second round the three members of a group have all submitted.
AscendingSubmissionWitness ==
    \E g \in 1..Len(group_matrix[2]) :
        /\ redistribute_completed[1]
        /\ Len(group_matrix[2][g]) >= 3
        /\ \A k \in 1..Len(group_matrix[2][g]) :
              investment_choice[2][Member(2, g, k)] # None

\* C3: the payoff computation of ResultsWaitPage.after_all_players_arrive
\* runs for a group once per round (only a ResultsWaitPage that has not run it
\* yet runs it) and only when every member of the group has an
\* investment_choice.
SettleOnceWhenAllChose ==
    [][\A r \in Rounds : \A g \in 1..Len(group_matrix[r]) :
          results_wait'[r][g] # results_wait[r][g]
              => /\ results_wait[r][g] = "waiting"
                 /\ \A q \in members(r, g) : investment_choice'[r][q] # None]_vars

\* C4: a request that evaluates Decision.is_displayed or
\* Decision.vars_for_template for a participant (it shows, skips or renders
\* again the Decision page of the participant's round) starts in a state where
\* the successful_option of the participant's group is OPTION_A or OPTION_B.
EvaluatesDecision(p) ==
    \/ /\ page[p] \in {"SetupRoundWaitPage", "Introduction", "SequentialWaitPage"}
       /\ page'[p] \in {"Decision", "ResultsWaitPage"}
    \/ /\ page[p] = "Decision"
       /\ page'[p] = "Decision"
       /\ advisor_option' # advisor_option

OutcomeBeforeDecision ==
    [][\A p \in Participants :
          (round_number[p] >= 1 /\ EvaluatesDecision(p))
              => successful_option[round_number[p]][GroupOf(round_number[p], p)]
                     \in {OPTION_A, OPTION_B}]_vars

\* A participant is on the Decision page of the last round with a
\* recommendation drawn from the group's outcome.
OutcomeBeforeDecisionWitness ==
    \E p \in Participants :
        /\ round_number[p] = NUM_ROUNDS
        /\ page[p] = "Decision"
        /\ advisor_option[NUM_ROUNDS][p] # None
        /\ successful_option[NUM_ROUNDS][GroupOf(NUM_ROUNDS, p)] \in {OPTION_A, OPTION_B}

\* C5: in every round the grouping is a partition of the participants into
\* numGroups groups of PLAYERS_PER_GROUP members: every participant is in
\* exactly one (group, position) cell, and the shape stays the same.
GroupingIsPartition ==
    \A r \in Rounds :
        /\ Len(group_matrix[r]) = numGroups
        /\ \A g \in 1..Len(group_matrix[r]) :
              Len(group_matrix[r][g]) = PLAYERS_PER_GROUP
        /\ \A p \in Participants :
              Cardinality({c \in (1..Len(group_matrix[r])) \X (1..PLAYERS_PER_GROUP) :
                              /\ c[2] <= Len(group_matrix[r][c[1]])
                              /\ group_matrix[r][c[1]][c[2]] = p}) = 1

\* A session of NUM_GROUPS groups after the redistribution of every round
\* before the last, which has changed the grouping.
GroupingIsPartitionWitness ==
    /\ numGroups = NUM_GROUPS
    /\ \A r \in 1..(NUM_ROUNDS - 1) : redistribute_completed[r]
    /\ group_matrix[NUM_ROUNDS] # group_matrix[NUM_ROUNDS - 1]
    /\ group_matrix[NUM_ROUNDS - 1] # group_matrix[1]

\* C6: the grouping G1 = [P1, P2, P3], G2 = [P4, P5, P6], G3 = [P7, P8, P9]
\* is redistributed as P1 -> G2, P2 -> G3, P3 -> G1, P4 -> G3, P5 -> G1,
\* P6 -> G2, P7 -> G1, P8 -> G2, P9 -> G3; in general the occupant of the
\* 0-based cell (g, p) of a round lands in group (g + p + 1) mod numGroups of
\* the next round.
WorkedExample ==
    /\ (/\ numGroups = 3
        /\ group_matrix[1] = <<(<<1, 2, 3>>), (<<4, 5, 6>>), (<<7, 8, 9>>)>>
        /\ redistribute_completed[1])
           => /\ GroupOf(2, 1) = 2 /\ GroupOf(2, 2) = 3 /\ GroupOf(2, 3) = 1
              /\ GroupOf(2, 4) = 3 /\ GroupOf(2, 5) = 1 /\ GroupOf(2, 6) = 2
              /\ GroupOf(2, 7) = 1 /\ GroupOf(2, 8) = 2 /\ GroupOf(2, 9) = 3
    /\ \A r \in Rounds :
          redistribute_completed[r] =>
              \A g \in 0..(Len(group_matrix[r]) - 1) :
                  \A p \in 0..(Len(group_matrix[r][g + 1]) - 1) :
                      GroupOf(r + 1, group_matrix[r][g + 1][p + 1]) - 1
                          = (g + p + 1) % numGroups

\* The grouping of the example has been redistributed.
WorkedExampleWitness ==
    /\ numGroups = 3
    /\ group_matrix[1] = <<(<<1, 2, 3>>), (<<4, 5, 6>>), (<<7, 8, 9>>)>>
    /\ redistribute_completed[1]
    /\ group_matrix[2] # group_matrix[1]

\* C7: RedistributeGroupsWaitPage.after_all_players_arrive is never executed
\* in round NUM_ROUNDS, and nobody waits on that page in round NUM_ROUNDS.
NoRedistributionInLastRound ==
    /\ ~redistribute_completed[NUM_ROUNDS]
    /\ \A p \in Participants :
          ~(round_number[p] = NUM_ROUNDS /\ page[p] = "RedistributeGroupsWaitPage")

\* Every participant has left RoundResults of the last round.
NoRedistributionInLastRoundWitness ==
    \A p \in Participants :
        round_number[p] = NUM_ROUNDS /\ page[p] = "FinalResults"

\* C8: once a group is settled, the payoff of every member is
\* CORRECT_CHOICE_REWARD - TRANSACTION_COST if the member's investment_choice
\* is the group's successful_option and -INCORRECT_CHOICE_PENALTY -
\* TRANSACTION_COST otherwise, which is 10 and 0 with the configured amounts.
PayoffCorrect ==
    \A r \in Rounds : \A g \in 1..Len(group_matrix[r]) :
        results_wait[r][g] = "completed" =>
            \A q \in members(r, g) :
                /\ investment_choice[r][q] = successful_option[r][g]
                      => /\ payoff[r][q] = CORRECT_CHOICE_REWARD - TRANSACTION_COST
                         /\ payoff[r][q] = 10
                /\ investment_choice[r][q] # successful_option[r][g]
                      => /\ payoff[r][q] =
                               (0 - INCORRECT_CHOICE_PENALTY) - TRANSACTION_COST
                         /\ payoff[r][q] = 0

\* A settled group with a member who chose the successful option and a member
\* who did not.
PayoffCorrectWitness ==
    \E r \in Rounds : \E g \in 1..Len(group_matrix[r]) :
        /\ results_wait[r][g] = "completed"
        /\ \E q \in members(r, g) :
              investment_choice[r][q] = successful_option[r][g] /\ payoff[r][q] = 10
        /\ \E q \in members(r, g) :
              /\ investment_choice[r][q] \in {OPTION_A, OPTION_B}
              /\ investment_choice[r][q] # successful_option[r][g]
              /\ payoff[r][q] = 0

\* C9: advisor_option of a player is written once: a recommendation that is
\* stored is not replaced by another one.
AdvisorOptionWrittenOnce ==
    [][\A r \in Rounds : \A p \in Participants :
          advisor_option[r][p] # None
              => advisor_option'[r][p] = advisor_option[r][p]]_vars

\* C10: successful_option of a group of a round is written once: an outcome
\* that is stored is not replaced by another one.
SuccessfulOptionWrittenOnce ==
    [][\A r \in Rounds : \A g \in Groups :
          successful_option[r][g] # None
              => successful_option'[r][g] = successful_option[r][g]]_vars

\* C11 as stated: the is_advisor_followed values of a participant's Player
\* rows, read in round order over settled rounds, never decrease and rise by
\* at most 1 from one round to the next.
FollowedValuesNonDecreasing ==
    \A p \in Participants : \A r \in 1..(NUM_ROUNDS - 1) :
        (/\ results_wait[r][GroupOf(r, p)] = "completed"
         /\ results_wait[r + 1][GroupOf(r + 1, p)] = "completed")
            => /\ is_advisor_followed[r][p] <= is_advisor_followed[r + 1][p]
               /\ is_advisor_followed[r + 1][p] <= is_advisor_followed[r][p] + 1

\* C11, amended: every Player row's is_advisor_followed is 0 or 1, so the
\* participant's total over the rounds 1..r (what the result pages sum) never
\* decreases from round to round and every round raises it by at most 1.
FollowedTotalNonDecreasing ==
    \A p \in Participants : \A r \in Rounds :
        /\ is_advisor_followed[r][p] \in {0, 1}
        /\ total_followed_adviser(p, r - 1) <= total_followed_adviser(p, r)
        /\ total_followed_adviser(p, r) <= total_followed_adviser(p, r - 1) + 1

\* A participant followed the advice in the settled first round and not in
\* the settled second round: the total stays, the row's value falls.
FollowedTotalNonDecreasingWitness ==
    \E p \in Participants :
        /\ results_wait[1][GroupOf(1, p)] = "completed"
        /\ results_wait[2][GroupOf(2, p)] = "completed"
        /\ is_advisor_followed[1][p] = 1
        /\ is_advisor_followed[2][p] = 0
        /\ total_followed_adviser(p, 1) = 1
        /\ total_followed_adviser(p, 2) = 1

\* C12: the advisor draw returns the group's successful_option whenever the
\* random value is below the threshold and a choice different from it
\* otherwise; with threshold 100 every stored recommendation is the group's
\* outcome and with threshold 0 every stored recommendation differs from it,
\* for every random value and both outcomes.
AdvisorDrawByThreshold ==
    \A p \in Participants :
        LET successful == successful_option[1][GroupOf(1, p)] IN
        successful # None =>
            /\ \A random_value_percent \in RandomPercents :
                  /\ AdvisorOptions(random_value_percent, successful) # {}
                  /\ \A advice \in AdvisorOptions(random_value_percent, successful) :
                        /\ advice \in ChoiceSet
                        /\ advice = successful <=> random_value_percent < threshold_percent
            /\ advisor_option[1][p] # None =>
                  /\ threshold_percent = 100 => advisor_option[1][p] = successful
                  /\ threshold_percent = 0 =>
                        advisor_option[1][p] \in ChoiceSet \ {successful}

\* Under threshold 0 every member of the group has been advised, against the
\* group's outcome OPTION_B.
AdvisorDrawByThresholdWitness ==
    /\ threshold_percent = 0
    /\ \A p \in Participants :
          /\ successful_option[1][GroupOf(1, p)] = OPTION_B
          /\ advisor_option[1][p] = OPTION_A

\* C13: in a session of NUM_GROUPS groups of PLAYERS_PER_GROUP players, no two
\* players who are in the same group in a round r < NUM_ROUNDS are in the same
\* group in round r + 1, once round r has been redistributed.
NewGroupMembers ==
    numGroups = NUM_GROUPS =>
        \A r \in 1..(NUM_ROUNDS - 1) :
            redistribute_completed[r] =>
                \A a \in Participants : \A b \in Participants \ {a} :
                    GroupOf(r, a) = GroupOf(r, b)
                        => GroupOf(r + 1, a) # GroupOf(r + 1, b)

\* A session of NUM_GROUPS groups that did not start from the consecutive
\* grouping has been redistributed in every round before the last.
NewGroupMembersWitness ==
    /\ numGroups = NUM_GROUPS
    /\ group_matrix[1] # DefaultMatrix(NUM_GROUPS)
    /\ \A r \in 1..(NUM_ROUNDS - 1) : redistribute_completed[r]
    /\ \E a \in Participants : \E b \in Participants \ {a} :
          GroupOf(1, a) = GroupOf(1, b) /\ GroupOf(2, a) # GroupOf(2, b)

\* C14: once a group of a round has been settled, no step changes that
\* round's successful_option of the group nor any member's advisor_option,
\* investment_choice, payoff or is_advisor_followed of that round; and the
\* total payoff and total follow count of a participant over rounds that are
\* all settled read the same after every step.
SettledRowsFrozen ==
    [][/\ \A r \in Rounds : \A g \in 1..Len(group_matrix[r]) :
             results_wait[r][g] = "completed" =>
                 /\ successful_option'[r][g] = successful_option[r][g]
                 /\ \A q \in members(r, g) :
                       /\ advisor_option'[r][q] = advisor_option[r][q]
                       /\ investment_choice'[r][q] = investment_choice[r][q]
                       /\ payoff'[r][q] = payoff[r][q]
                       /\ is_advisor_followed'[r][q] = is_advisor_followed[r][q]
       /\ \A p \in Participants : \A k \in Rounds :
             (\A r \in 1..k : results_wait[r][GroupOf(r, p)] = "completed")
                 => /\ total_payoff(p, k)' = total_payoff(p, k)
                    /\ total_followed_adviser(p, k)' = total_followed_adviser(p, k)]_vars

\* A participant whose first round is settled with a payoff and a followed
\* advice has gone through the redistribution and decided in the second round.
SettledRowsFrozenWitness ==
    \E p \in Participants :
        /\ results_wait[1][GroupOf(1, p)] = "completed"
        /\ payoff[1][p] = CORRECT_CHOICE_REWARD - TRANSACTION_COST
        /\ is_advisor_followed[1][p] = 1
        /\ redistribute_completed[1]
        /\ round_number[p] = 2
        /\ investment_choice[2][p] # None
        /\ total_payoff(p, 1) = CORRECT_CHOICE_REWARD - TRANSACTION_COST

\* C15: custom_export, run on a session in which a participant has a Player
\* row with a null investment_choice, does not raise and yields a row for that
\* participant, in which the null round is not counted as correct and
\* num_correct + num_incorrect = NUM_ROUNDS.
ExportRowDespiteNullChoice ==
    exported.state # "NotExported" =>
        \A p \in Participants :
            (\E r \in Rounds : investment_choice[r][p] = None) =>
                /\ exported.state = "yielded"
                /\ \E i \in 1..Len(exported.rows) :
                      /\ exported.rows[i].ID = p
                      /\ exported.rows[i].num_correct =
                            Cardinality({r \in Rounds :
                                /\ investment_choice[r][p] # None
                                /\ investment_choice[r][p]
                                       = successful_option[r][GroupOf(r, p)]})
                      /\ exported.rows[i].num_correct
                            + exported.rows[i].num_incorrect = NUM_ROUNDS

\* C16: once a group is settled, every member's is_advisor_followed of that
\* round is 1 if the member's investment_choice equals the member's stored
\* advisor_option and 0 otherwise; the participant's summed follow count is
\* the number of settled rounds in which the choice matched the stored
\* recommendation.
FollowedIffChoiceIsAdvice ==
    /\ \A r \in Rounds : \A g \in 1..Len(group_matrix[r]) :
          results_wait[r][g] = "completed" =>
              \A q \in members(r, g) :
                  is_advisor_followed[r][q] =
                      IF investment_choice[r][q] = advisor_option[r][q] THEN 1 ELSE 0
    /\ \A p \in Participants :
          total_followed_adviser(p, NUM_ROUNDS) =
              Cardinality({r \in Rounds :
                              /\ results_wait[r][GroupOf(r, p)] = "completed"
                              /\ investment_choice[r][p] = advisor_option[r][p]})

\* A settled group with a member who followed the advice and a member who did
\* not, in a session where somebody has followed in two rounds.
FollowedIffChoiceIsAdviceWitness ==
    /\ \E r \in Rounds : \E g \in 1..Len(group_matrix[r]) :
          /\ results_wait[r][g] = "completed"
          /\ \E q \in members(r, g) :
                /\ investment_choice[r][q] = advisor_option[r][q]
                /\ is_advisor_followed[r][q] = 1
          /\ \E q \in members(r, g) :
                /\ investment_choice[r][q] # advisor_option[r][q]
                /\ is_advisor_followed[r][q] = 0
    /\ \E p \in Participants : total_followed_adviser(p, NUM_ROUNDS) = 2

\* The 0-based cells (g, p) of the grouping of round r.
Cells(r) ==
    {c \in (0..(Len(group_matrix[r]) - 1)) \X (0..(PLAYERS_PER_GROUP - 1)) :
        c[2] < Len(group_matrix[r][c[1] + 1])}

Occupant(r, c) == group_matrix[r][c[1] + 1][c[2] + 1]

\* The occupants of the cells c and d of round r are in one group in round r + 1.
SameTarget(r, c, d) ==
    GroupOf(r + 1, Occupant(r, c)) = GroupOf(r + 1, Occupant(r, d))

\* C17 as stated: in the matrix produced by redistribution the members of a
\* target group are positioned in order of increasing source position p: of
\* two arrivals (g1, p1) and (g2, p2) in one target group with p1 < p2, the
\* player from (g1, p1) gets the smaller new id_in_group.
ArrivalByIncreasingPosition ==
    \A r \in 1..(NUM_ROUNDS - 1) :
        redistribute_completed[r] =>
            \A c \in Cells(r) : \A d \in Cells(r) :
                (SameTarget(r, c, d) /\ c[2] < d[2])
                    => id_in_group(r + 1, Occupant(r, c))
                           < id_in_group(r + 1, Occupant(r, d))

\* C17, amended: the members of a target group are positioned in the order
\* in which the source cells are visited, group by group and position by
\* position: of two arrivals (g1, p1) and (g2, p2) in one target group with
\* g1 < g2, or g1 = g2 and p1 < p2, the player from (g1, p1) gets the smaller
\* new id_in_group.
ArrivalByVisitOrder ==
    \A r \in 1..(NUM_ROUNDS - 1) :
        redistribute_completed[r] =>
            \A c \in Cells(r) : \A d \in Cells(r) :
                (/\ SameTarget(r, c, d)
                 /\ (c[1] < d[1] \/ (c[1] = d[1] /\ c[2] < d[2])))
                    => id_in_group(r + 1, Occupant(r, c))
                           < id_in_group(r + 1, Occupant(r, d))

\* In a redistributed session of NUM_GROUPS groups a player from an earlier
\* group and a later position stands before a player from a later group and
\* an earlier position.
ArrivalByVisitOrderWitness ==
    /\ numGroups = NUM_GROUPS
    /\ redistribute_completed[1]
    /\ \E c \in Cells(1) : \E d \in Cells(1) :
          /\ SameTarget(1, c, d)
          /\ c[1] < d[1]
          /\ c[2] > d[2]
          /\ id_in_group(2, Occupant(1, c)) < id_in_group(2, Occupant(1, d))

\* C18: the grouping G1 = [P1, P2, P3], G2 = [P4, P5, P6], G3 = [P7, P8, P9]
\* is redistributed into G1 = [P3, P6, P9], G2 = [P1, P4, P7],
\* G3 = [P2, P5, P8], the matrix of the comment above
\* RedistributeGroupsWaitPage.
RedistributedAsCommented ==
    (/\ numGroups = 3
     /\ group_matrix[1] = <<(<<1, 2, 3>>), (<<4, 5, 6>>), (<<7, 8, 9>>)>>
     /\ redistribute_completed[1])
        => group_matrix[2] = <<(<<3, 6, 9>>), (<<1, 4, 7>>), (<<2, 5, 8>>)>>

\* Participant p starts the Decision page of round r in this step.
StartsDecision(p, r) ==
    /\ round_number'[p] = r /\ page'[p] = "Decision"
    /\ ~(round_number[p] = r /\ page[p] = "Decision")

\* C19: the redistribution of round r executes only in a state where every
\* group of round r has been settled (every player of the round has a choice
\* and the payoff of that choice), and no player starts the Decision page of
\* round r + 1 before it has completed and the groups of round r + 1 have
\* their outcomes.
RedistributionBarrier ==
    [][\A r \in 1..(NUM_ROUNDS - 1) :
          /\ (~redistribute_completed[r] /\ redistribute_completed'[r]) =>
                \A g \in 1..Len(group_matrix[r]) :
                    /\ results_wait[r][g] = "completed"
                    /\ \A q \in members(r, g) :
                          /\ investment_choice[r][q] \in ChoiceSet
                          /\ payoff[r][q] = PlayerPayoff(investment_choice[r][q],
                                                         successful_option[r][g])
          /\ \A p \in Participants :
                StartsDecision(p, r + 1) =>
                    /\ redistribute_completed[r]
                    /\ \A g \in 1..Len(group_matrix[r + 1]) :
                          successful_option[r + 1][g] \in ChoiceSet]_vars

\* In a session of two groups, a player of each group of the second round is
\* on the Decision page after the first round's redistribution.
RedistributionBarrierWitness ==
    /\ numGroups = 2
    /\ redistribute_completed[1]
    /\ group_matrix[2] # group_matrix[1]
    /\ \A g \in 1..Len(group_matrix[2]) :
          \E q \in members(2, g) : round_number[q] = 2 /\ page[q] = "Decision"

\* C20: FinalResults is reached only from RoundResults of round NUM_ROUNDS;
\* in every round r < NUM_ROUNDS a player who leaves RoundResults goes to
\* RedistributeGroupsWaitPage of that round, leaves it only after the round's
\* redistribution, which runs once, and then enters SetupRoundWaitPage of
\* round r + 1, never FinalResults.
FinalOnlyFromLastRound ==
    [][/\ \A p \in Participants :
             /\ (page'[p] = "FinalResults" /\ page[p] # "FinalResults") =>
                   /\ page[p] = "RoundResults"
                   /\ round_number[p] = NUM_ROUNDS
                   /\ round_number'[p] = NUM_ROUNDS
             /\ (/\ round_number[p] \in 1..(NUM_ROUNDS - 1)
                 /\ page[p] = "RoundResults"
                 /\ page'[p] # "RoundResults") =>
                   /\ page'[p] = "RedistributeGroupsWaitPage"
                   /\ round_number'[p] = round_number[p]
             /\ (/\ page[p] = "RedistributeGroupsWaitPage"
                 /\ <<round_number'[p], page'[p]>> # <<round_number[p], page[p]>>) =>
                   /\ round_number[p] < NUM_ROUNDS
                   /\ redistribute_completed[round_number[p]]
                   /\ page'[p] = "SetupRoundWaitPage"
                   /\ round_number'[p] = round_number[p] + 1
       /\ \A r \in Rounds :
             redistribute_completed[r] =>
                 /\ redistribute_completed'[r]
                 /\ group_matrix'[r + 1] = group_matrix[r + 1]]_vars

\* After the redistribution of every earlier round, one participant is on
\* FinalResults while another still reads RoundResults of the last round.
FinalOnlyFromLastRoundWitness ==
    /\ \A r \in 1..(NUM_ROUNDS - 1) : redistribute_completed[r]
    /\ \E p \in Participants :
          round_number[p] = NUM_ROUNDS /\ page[p] = "FinalResults"
    /\ \E q \in Participants :
          round_number[q] = NUM_ROUNDS /\ page[q] = "RoundResults"

\* Every group of every round is settled and every participant is on
\* FinalResults of round NUM_ROUNDS.
AllSettledAndFinal ==
    /\ \A r \in Rounds : \A g \in 1..Len(group_matrix[r]) :
          results_wait[r][g] = "completed"
    /\ \A p \in Participants :
          round_number[p] = NUM_ROUNDS /\ page[p] = "FinalResults"

\* C21: with participants who take every page transition open to them and
\* submit a choice when on Decision, the wait pages never block for good:
\* every group of every round is eventually settled and every participant
\* eventually reaches FinalResults of round NUM_ROUNDS.
EventuallyAllFinal == <>AllSettledAndFinal

====
